---- MODULE Spec2Model ----
(***************************************************************************)
(* Model of the PayID19 payment service: the invoice gateway               *)
(* (PayID19Service.getInvoices / createInvoice), the status reconciliation *)
(* (PayID19Service.checkPaymentStatus, the /status and /check-status-both  *)
(* routes) and the webhook notification handler (routes/webhook.js).       *)
(*                                                                         *)
(* One request is followed from its arrival to its response.  A request    *)
(* suspends only at its network calls, so every action is the code that    *)
(* runs between two awaits; the processor's reply to each call is an input *)
(* of the action that resumes the request.                                 *)
(***************************************************************************)
EXTENDS Integers, Sequences, FiniteSets, TLC

(***************************************************************************)
(* JavaScript values.  A field that is not there (undefined) is Absent for *)
(* text fields and NoAmount for amount fields.  Amounts travel as decimal  *)
(* strings ('2.00000000'); an amount n >= 0 stands for the string that     *)
(* parseFloat turns into n, Unparsable for a string parseFloat cannot      *)
(* read.  NonText is a status value that is not a string (a number).       *)
(***************************************************************************)
Absent == "<absent>"
NonText == "<number>"
NoAmount == -1
Unparsable == -2
NaN == -3

\* truthiness of a text field: undefined is falsy, every label here is non-empty
TruthyText(s) == s # Absent
\* truthiness of an amount string: undefined is falsy, every non-empty string
\* (also '0') is truthy
TruthyAmount(a) == a # NoAmount

parseFloat(a) == IF a < 0 THEN NaN ELSE a

\* String.prototype.toLowerCase on the labels of the model
toLowerCase(s) ==
  CASE s = "FINISHED" -> "finished"
    [] s = "Waiting" -> "waiting"
    [] s = "Failed" -> "failed"
    [] OTHER -> s

\* paidAmount >= expectedAmount * 0.95 ; every comparison with NaN is false
TolerancePct == 95
AmountSufficientStrict(paidAmount, expectedAmount) ==
  /\ paidAmount # NaN
  /\ expectedAmount # NaN
  /\ paidAmount * 100 > expectedAmount * TolerancePct
AmountSufficient(paidAmount, expectedAmount) ==
  /\ paidAmount # NaN
  /\ expectedAmount # NaN
  /\ paidAmount * 100 >= expectedAmount * TolerancePct
\* receivedAmount > 0
Positive(a) == a # NaN /\ a > 0

CompletedLabels == {"finished", "completed", "complete", "confirmed"}
WaitingLabels == {"waiting", "pending", "new", "created"}
ConfirmingLabels == {"confirming", "partially_paid"}

(***************************************************************************)
(* Invoice objects as the processor reports them, and the objects the code *)
(* reads the same fields from.                                             *)
(***************************************************************************)
MkInvoice(st, price, paid, pay) ==
  [status |-> st, price_amount |-> price, actually_paid |-> paid,
   pay_amount |-> pay, invoice_id |-> "i1"]

Invoices ==
  {MkInvoice(st, 100, paid, NoAmount) :
      st \in {Absent, "confirming", "processing"}, paid \in {NoAmount, 50, 95}}
  \cup {MkInvoice(st, 100, paid, NoAmount) :
      st \in {"finished", "waiting", "failed"}, paid \in {NoAmount, 95}}
  \cup {MkInvoice(st, 100, 95, NoAmount) :
      st \in {"partially_paid", "refunded", "expired"}}
  \cup {MkInvoice(st, 100, NoAmount, NoAmount) :
      st \in {"confirmed", "FINISHED", NonText}}
  \cup {MkInvoice(Absent, NoAmount, 95, NoAmount),
        MkInvoice(Absent, 100, 94, NoAmount),
        MkInvoice(Absent, 20, 19, NoAmount),
        MkInvoice(Absent, 20, 18, NoAmount),
        MkInvoice(Absent, 100, Unparsable, NoAmount),
        MkInvoice("confirming", 100, NoAmount, 96)}

\* the {status: 'success', message: '...'} envelope read as if it were an invoice
EnvelopeObject ==
  [status |-> "success", price_amount |-> NoAmount, actually_paid |-> NoAmount,
   pay_amount |-> NoAmount, invoice_id |-> Absent]

(***************************************************************************)
(* Replies of the processor to get_invoices.  kind:                        *)
(*   result            {result: <invoice> | [<invoice>...] | []}           *)
(*   success_envelope  {status: 'success', message: '<JSON of the payload>'}*)
(*   error_envelope    {status: 'error', message: ...}                     *)
(*   unknown           a body of no tolerated shape                        *)
(*   empty             no body                                             *)
(*   transport         network error or timeout (axios rejects)           *)
(*   http_error        non-2xx status (axios rejects)                      *)
(* isArray/items is the payload: of the result field, or encoded in the    *)
(* message of the envelope.                                                *)
(***************************************************************************)
MkReply(k, arr, its) == [kind |-> k, isArray |-> arr, items |-> its]

FailureKinds == {"error_envelope", "unknown", "empty", "transport", "http_error"}

Replies ==
  {MkReply("result", FALSE, <<i>>) : i \in Invoices}
  \cup {MkReply("result", TRUE, <<>>)}
  \cup {MkReply("result", TRUE, <<MkInvoice("finished", 100, 95, NoAmount)>>)}
  \cup {MkReply("success_envelope", TRUE, <<>>)}
  \cup {MkReply("success_envelope", TRUE, <<i>>) :
          i \in {MkInvoice("finished", 100, 95, NoAmount),
                 MkInvoice("waiting", 100, NoAmount, NoAmount)}}
  \cup {MkReply(k, FALSE, <<>>) : k \in FailureKinds}

\* the payload of a reply is the empty-array marker
EmptyMarker(reply) ==
  /\ reply.kind \in {"result", "success_envelope"}
  /\ reply.isArray
  /\ reply.items = <<>>

(***************************************************************************)
(* PayID19Service.getInvoices                                              *)
(***************************************************************************)
\* what a call gives back: a returned result object or a thrown exception
NoResult ==
  [tag |-> "none", success |-> FALSE, hasData |-> FALSE, isArray |-> FALSE,
   items |-> <<>>, error |-> ""]
ReturnData(arr, its) ==
  [tag |-> "return", success |-> TRUE, hasData |-> TRUE, isArray |-> arr,
   items |-> its, error |-> ""]
ReturnFailure(err) ==
  [tag |-> "return", success |-> FALSE, hasData |-> FALSE, isArray |-> FALSE,
   items |-> <<>>, error |-> err]
Throw(err) ==
  [tag |-> "throw", success |-> FALSE, hasData |-> FALSE, isArray |-> FALSE,
   items |-> <<>>, error |-> err]

\* the try block after the request was built: the await and the shape tests
getInvoicesTry(reply) ==
  CASE reply.kind = "transport" -> Throw("network error")
    [] reply.kind = "http_error" -> Throw("request failed with status code")
    [] reply.kind = "result" -> ReturnData(reply.isArray, reply.items)
    [] reply.kind = "success_envelope" -> ReturnData(FALSE, <<EnvelopeObject>>)
    [] reply.kind = "error_envelope" -> Throw("API returned error status")
    [] OTHER -> Throw("Unexpected API response format")

getInvoicesNoCatch(reply) == getInvoicesTry(reply)
\* the whole function: the catch block turns every exception into a result
getInvoices(reply) ==
  LET r == getInvoicesTry(reply)
  IN  IF r.tag = "throw" THEN ReturnFailure(r.error) ELSE r

\* the request getInvoices sends: order_id / invoice_id only when truthy,
\* status only when it is 0 or 1
NoProbe == 2
GetInvoicesRequest(orderId, invoiceId, status) ==
  [endpoint |-> "get_invoices", order_id |-> orderId, invoice_id |-> invoiceId,
   status |-> IF status \in {0, 1} THEN status ELSE NoProbe]

\* result.success && result.data
SuccessWithData(r) == r.tag = "return" /\ r.success /\ r.hasData

\* Array.isArray(data) ? data : [data]
AsArray(r) == r.items


(***************************************************************************)
(* State of one request                                                    *)
(***************************************************************************)
VARIABLES
  pc,              \* where the request is: idle, awaiting a reply, done
  op,              \* the operation that was called
  req,             \* its input
  requests,        \* the requests sent to the processor, in order
  replies,         \* the replies of the processor, in order
  status0Result,   \* checkPaymentStatus: result of getInvoices(orderId, null, 0)
  status1Result,   \* checkPaymentStatus: result of getInvoices(orderId, null, 1)
  fallbackResult,  \* checkPaymentStatus: result of getInvoices(orderId)
  callbackData,    \* webhook: the notification being processed
  hooks,           \* webhook: the payment handlers that ran, in order
  unknownCalls,    \* webhook: number of calls of handleUnknownStatus
  forwarded,       \* webhook: notifications posted downstream
  signature,       \* webhook: the signature header of the request
  res,             \* what the caller gets back
  service,         \* the fields of the PayID19Service instance of a router
  calls,           \* concurrent tasks: the operation and input of each task
  responses,       \* concurrent tasks: the processor's replies to each task
  frames           \* concurrent tasks: the parameters and locals of the calls

vars == <<pc, op, req, requests, replies, status0Result, status1Result,
          fallbackResult, callbackData, hooks, unknownCalls, forwarded,
          signature, res, service, calls, responses, frames>>
taskVars == <<service, calls, responses, frames>>

OrderIds == {"o1", "o2"}
InvoiceIds == {"i1"}
PrivateKey == "configured-private-key"
PublicKey == "configured-public-key"

\* the priceAmount of a create-invoice body: undefined, a JSON number (1e999
\* is read as Infinity) or a string; val is its numeric value (ToNumber), nan
\* and inf say that this value is NaN or Infinity
MkPrice(type, nan, inf, val) == [type |-> type, nan |-> nan, inf |-> inf, val |-> val]
PriceUndefined == MkPrice("undefined", TRUE, FALSE, 0)

NoRequest ==
  [order_id |-> Absent, invoice_id |-> Absent, id |-> Absent, status |-> Absent,
   price_amount |-> NoAmount, amount |-> NoAmount, amount_currency |-> Absent,
   pay_amount |-> NoAmount, actually_paid |-> NoAmount, privatekey |-> Absent,
   priceAmount |-> PriceUndefined, successUrl |-> Absent, failureUrl |-> Absent,
   cancelUrl |-> Absent, key_order |-> <<>>]

\* JSON.stringify(data): the keys in the order the object has them (key_order
\* holds the order of the identifying keys; the other keys follow in one
\* fixed order) with their values
JSONstringify(data) ==
  [keys |-> data.key_order, values |-> [data EXCEPT !.key_order = <<>>]]

\* crypto.createHmac('sha256', key).update(dataString).digest('hex'): a keyed
\* hash, which gives equal digests only for equal keys and equal data
Hmac(key, dataString) == [key |-> key, data |-> dataString]
NoSignature == Hmac(Absent, JSONstringify(NoRequest))

\* the constructor of PayID19Service
DomainUrl == "https://coin-payment.m-gh.com"
ServiceConstructed ==
  [apiUrl |-> "https://payid19.com/api/v1", publicKey |-> PublicKey,
   privateKey |-> PrivateKey, domainUrl |-> DomainUrl]

NoRes ==
  [threw |-> FALSE, code |-> 0, status |-> -1, success |-> FALSE,
   message |-> "", error |-> "", original_status |-> Absent,
   order_id |-> Absent, private_key |-> Absent, is_complete |-> <<>>,
   invoice_id |-> Absent, invoice_url |-> Absent]

\* concurrent tasks: the requests in progress on one server process
NumTasks == 2
Tasks == 1..NumTasks
NoCall == [op |-> "none", input |-> NoRequest]
NoFrame ==
  [pc |-> "idle", data |-> NoRequest, status0Result |-> NoResult,
   status1Result |-> NoResult, lookups |-> 0, result |-> NoRes]

Init ==
  /\ service = ServiceConstructed
  /\ calls = [t \in Tasks |-> NoCall]
  /\ responses = [t \in Tasks |-> <<>>]
  /\ frames = [t \in Tasks |-> NoFrame]
  /\ pc = "idle"
  /\ op = "none"
  /\ req = NoRequest
  /\ requests = <<>>
  /\ replies = <<>>
  /\ status0Result = NoResult
  /\ status1Result = NoResult
  /\ fallbackResult = NoResult
  /\ callbackData = NoRequest
  /\ hooks = <<>>
  /\ unknownCalls = 0
  /\ forwarded = <<>>
  /\ signature = NoSignature
  /\ res = NoRes

Send(request) == requests' = Append(requests, request)
Receive(reply) == replies' = Append(replies, reply)

(***************************************************************************)
(* PayID19Service.checkPaymentStatus                                       *)
(***************************************************************************)
CpsReturn(orderId, st, msg, err, orig) ==
  [NoRes EXCEPT !.status = st, !.message = msg, !.error = err,
                !.original_status = orig, !.order_id = orderId,
                !.private_key = PrivateKey]

\* the catch block of checkPaymentStatus
CpsCatchRethrow(orderId) == [NoRes EXCEPT !.threw = TRUE, !.error = "exception"]
CpsCatch(orderId) ==
  CpsReturn(orderId, 0, "Error occurred while checking payment status",
            "exception", Absent)

\* from "Handle both single invoice and array of invoices" to the return;
\* invoiceData is the data of result r, or null when hasInvoiceData is false
\* ([null][0].invoice_id is a TypeError, caught by the catch block)
CpsTail(orderId, finalStatus, finalMessage, hasInvoiceData, r) ==
  IF ~hasInvoiceData THEN CpsCatch(orderId)
  ELSE IF Len(AsArray(r)) = 0
       THEN CpsReturn(orderId, 0, "No invoices found for the provided order ID",
                      "", Absent)
       ELSE CpsReturn(orderId, finalStatus, finalMessage, "",
                      AsArray(r)[1].status)

\* the analysis of the first invoice of the unprobed lookup
Verdict(t, st, msg) == [threw |-> t, status |-> st, message |-> msg]
FallbackClassifyLenient(invoice) ==
  IF TruthyText(invoice.status)
  THEN IF invoice.status = NonText
       THEN Verdict(TRUE, 0, "status.toLowerCase is not a function")
       ELSE IF toLowerCase(invoice.status) \in CompletedLabels \cup WaitingLabels
            THEN Verdict(FALSE, 1, "Payment successful (determined from fallback)")
            ELSE Verdict(FALSE, 0, "Payment waiting (determined from fallback)")
  ELSE Verdict(FALSE, 0, "Payment waiting")
FallbackClassify(invoice) ==
  IF TruthyText(invoice.status)
  THEN IF invoice.status = NonText
       THEN Verdict(TRUE, 0, "status.toLowerCase is not a function")
       ELSE IF toLowerCase(invoice.status) \in CompletedLabels
            THEN Verdict(FALSE, 1, "Payment successful (determined from fallback)")
            ELSE Verdict(FALSE, 0, "Payment waiting (determined from fallback)")
  ELSE IF TruthyAmount(invoice.actually_paid) /\ TruthyAmount(invoice.price_amount)
       THEN IF AmountSufficient(parseFloat(invoice.actually_paid),
                                parseFloat(invoice.price_amount))
            THEN Verdict(FALSE, 1,
                   "Payment successful (determined by amount from fallback)")
            ELSE Verdict(FALSE, 0,
                   "Payment waiting (determined by amount from fallback)")
       ELSE Verdict(FALSE, 0, "Payment waiting")

\* the else branch "try without status parameter as fallback", given its result
CpsFallback(orderId, r) ==
  IF r.tag = "throw" THEN CpsCatch(orderId)
  ELSE IF SuccessWithData(r)
       THEN IF Len(AsArray(r)) > 0
            THEN LET c == FallbackClassify(AsArray(r)[1])
                 IN  IF c.threw THEN CpsCatch(orderId)
                     ELSE CpsTail(orderId, c.status, c.message, TRUE, r)
            ELSE CpsTail(orderId, 0, "Payment waiting", FALSE, r)
       ELSE CpsReturn(orderId, 0,
                      "Failed to retrieve invoice details with any method",
                      "All API calls failed", Absent)

\* checkPaymentStatus(orderId) up to its first await
StartCheckPaymentStatusBothAtOnce ==
  /\ pc = "idle"
  /\ UNCHANGED taskVars
  /\ \E orderId \in OrderIds :
     /\ op' = "checkPaymentStatus"
     /\ req' = [NoRequest EXCEPT !.order_id = orderId]
     /\ requests' = requests \o <<GetInvoicesRequest(orderId, Absent, 0),
                                  GetInvoicesRequest(orderId, Absent, 1)>>
     /\ pc' = "cps_status0"
     /\ UNCHANGED <<replies, status0Result, status1Result, fallbackResult,
                    callbackData, hooks, unknownCalls, forwarded, signature, res>>
StartCheckPaymentStatus ==
  /\ pc = "idle"
  /\ UNCHANGED taskVars
  /\ \E orderId \in OrderIds :
     /\ op' = "checkPaymentStatus"
     /\ req' = [NoRequest EXCEPT !.order_id = orderId]
     /\ Send(GetInvoicesRequest(orderId, Absent, 0))
     /\ pc' = "cps_status0"
     /\ UNCHANGED <<replies, status0Result, status1Result, fallbackResult,
                    callbackData, hooks, unknownCalls, forwarded, signature, res>>

\* the status=0 lookup completes; the status=1 lookup is issued
CpsStatus0 ==
  /\ pc = "cps_status0"
  /\ UNCHANGED taskVars
  /\ \E reply \in Replies :
     /\ Receive(reply)
     /\ LET r == getInvoices(reply)
        IN  IF r.tag = "throw"
            THEN /\ res' = CpsCatch(req.order_id)
                 /\ pc' = "done"
                 /\ UNCHANGED <<requests, status0Result>>
            ELSE /\ status0Result' = r
                 /\ Send(GetInvoicesRequest(req.order_id, Absent, 1))
                 /\ pc' = "cps_status1"
                 /\ UNCHANGED res
     /\ UNCHANGED <<op, req, status1Result, fallbackResult, callbackData, hooks,
                    unknownCalls, forwarded, signature>>

\* the status=1 lookup completes; the result is chosen or the fallback issued
CpsStatus1 ==
  /\ pc = "cps_status1"
  /\ UNCHANGED taskVars
  /\ \E reply \in Replies :
     /\ Receive(reply)
     /\ LET r == getInvoices(reply)
        IN  IF r.tag = "throw"
            THEN /\ res' = CpsCatch(req.order_id)
                 /\ pc' = "done"
                 /\ UNCHANGED <<requests, status1Result>>
            ELSE /\ status1Result' = r
                 /\ IF SuccessWithData(r)
                    THEN /\ res' = CpsTail(req.order_id, 1, "Payment successful",
                                           TRUE, r)
                         /\ pc' = "done"
                         /\ UNCHANGED requests
                    ELSE IF SuccessWithData(status0Result)
                    THEN /\ res' = CpsTail(req.order_id, 0, "Payment waiting",
                                           TRUE, status0Result)
                         /\ pc' = "done"
                         /\ UNCHANGED requests
                    ELSE /\ Send(GetInvoicesRequest(req.order_id, Absent, NoProbe))
                         /\ pc' = "cps_fallback"
                         /\ UNCHANGED res
     /\ UNCHANGED <<op, req, status0Result, fallbackResult, callbackData, hooks,
                    unknownCalls, forwarded, signature>>

\* the unprobed lookup completes
CpsFallbackReply ==
  /\ pc = "cps_fallback"
  /\ UNCHANGED taskVars
  /\ \E reply \in Replies :
     /\ Receive(reply)
     /\ LET r == getInvoices(reply)
        IN  /\ fallbackResult' = (IF r.tag = "throw" THEN fallbackResult ELSE r)
            /\ res' = CpsFallback(req.order_id, r)
     /\ pc' = "done"
     /\ UNCHANGED <<op, req, requests, status0Result, status1Result, callbackData,
                    hooks, unknownCalls, forwarded, signature>>

(***************************************************************************)
(* POST /check-status-both                                                 *)
(***************************************************************************)
\* "Check various conditions to determine the correct status": the verdict on
\* the first invoice
AmountVerdict(invoice, yes, no, none) ==
  IF TruthyAmount(invoice.actually_paid) /\ TruthyAmount(invoice.price_amount)
  THEN IF AmountSufficient(parseFloat(invoice.actually_paid),
                           parseFloat(invoice.price_amount))
       THEN Verdict(FALSE, 1, yes)
       ELSE Verdict(FALSE, 0, no)
  ELSE Verdict(FALSE, 0, none)

CheckStatusBothClassify(invoice) ==
  IF TruthyText(invoice.status)
  THEN IF invoice.status = NonText
       THEN Verdict(TRUE, 0, "invoice.status.toLowerCase is not a function")
       ELSE LET status == toLowerCase(invoice.status)
            IN  IF status \in CompletedLabels
                THEN Verdict(FALSE, 1, "Payment successful")
                ELSE IF status \in WaitingLabels
                THEN Verdict(FALSE, 0, "Payment waiting")
                ELSE IF status \in ConfirmingLabels
                THEN AmountVerdict(invoice,
                       "Payment successful (confirmed by amount)",
                       "Payment waiting (insufficient amount)",
                       "Payment waiting (confirming)")
                ELSE AmountVerdict(invoice,
                       "Payment successful (determined by amount)",
                       "Payment waiting (unknown status)",
                       "Payment waiting (unknown status)")
  ELSE AmountVerdict(invoice,
         "Payment successful (determined by amount)",
         "Payment waiting (partial amount received)",
         "Payment waiting (no payment data)")

HttpError(c, msg, err) ==
  [NoRes EXCEPT !.code = c, !.message = msg, !.error = err]

\* the response of the route, given the result of its lookup
CheckStatusBothResponse(order_id, r) ==
  IF r.tag = "throw"
  THEN HttpError(500, "Internal server error while checking payment status",
                 r.error)
  ELSE IF ~r.success
  THEN [CpsReturn(order_id, 0, "Failed to retrieve invoice details", r.error,
                  Absent) EXCEPT !.code = 404]
  ELSE IF Len(AsArray(r)) = 0
  THEN [CpsReturn(order_id, 0, "No invoices found for the provided order ID",
                  "", Absent) EXCEPT !.code = 404]
  ELSE LET invoice == AsArray(r)[1]
           c == CheckStatusBothClassify(invoice)
       IN  IF c.threw
           THEN HttpError(500,
                  "Internal server error while checking payment status",
                  c.message)
           ELSE [CpsReturn(order_id, c.status, c.message, "", invoice.status)
                   EXCEPT !.code = 200]

CheckStatusBoth ==
  /\ pc = "idle"
  /\ UNCHANGED taskVars
  /\ \E order_id \in OrderIds \cup {Absent}, reply \in Replies :
     /\ op' = "check-status-both"
     /\ req' = [NoRequest EXCEPT !.order_id = order_id]
     /\ pc' = "done"
     /\ IF ~TruthyText(order_id)
        THEN /\ res' = HttpError(400, "", "Missing required parameter: order_id")
             /\ UNCHANGED <<requests, replies>>
        ELSE /\ Send(GetInvoicesRequest(order_id, Absent, NoProbe))
             /\ Receive(reply)
             /\ res' = CheckStatusBothResponse(order_id, getInvoices(reply))
     /\ UNCHANGED <<status0Result, status1Result, fallbackResult, callbackData,
                    hooks, unknownCalls, forwarded, signature>>

(***************************************************************************)
(* GET /status/:orderId?                                                   *)
(***************************************************************************)
\* "Determine if payment is complete", for one invoice
IsComplete(invoice) ==
  IF TruthyText(invoice.status)
  THEN toLowerCase(invoice.status) \in CompletedLabels
  ELSE IF TruthyAmount(invoice.actually_paid) /\ TruthyAmount(invoice.price_amount)
       THEN AmountSufficient(parseFloat(invoice.actually_paid),
                             parseFloat(invoice.price_amount))
       ELSE FALSE

StatusResponse(r) ==
  IF r.tag = "throw"
  THEN HttpError(500, "Internal server error while checking payment status",
                 r.error)
  ELSE IF ~r.success
  THEN HttpError(500, "Failed to retrieve invoice status", r.error)
  ELSE IF Len(AsArray(r)) = 0
  THEN HttpError(404, "No invoices found for the provided parameters",
                 "Invoice not found")
  ELSE IF \E k \in 1..Len(AsArray(r)) : AsArray(r)[k].status = NonText
  THEN HttpError(500, "Internal server error while checking payment status",
                 "status.toLowerCase is not a function")
  ELSE [NoRes EXCEPT !.code = 200, !.success = TRUE,
                     !.original_status = AsArray(r)[1].status,
                     !.is_complete =
                        [k \in 1..Len(AsArray(r)) |-> IsComplete(AsArray(r)[k])]]

StatusRoute ==
  /\ pc = "idle"
  /\ UNCHANGED taskVars
  /\ \E orderId \in OrderIds \cup {Absent}, invoiceId \in InvoiceIds \cup {Absent},
        reply \in Replies :
     /\ op' = "status"
     /\ req' = [NoRequest EXCEPT !.order_id = orderId, !.invoice_id = invoiceId]
     /\ pc' = "done"
     /\ IF ~TruthyText(orderId) /\ ~TruthyText(invoiceId)
        THEN /\ res' = HttpError(400, "",
                         "Missing required parameter: order_id or invoice_id")
             /\ UNCHANGED <<requests, replies>>
        ELSE /\ Send(GetInvoicesRequest(orderId, invoiceId, NoProbe))
             /\ Receive(reply)
             /\ res' = StatusResponse(getInvoices(reply))
     /\ UNCHANGED <<status0Result, status1Result, fallbackResult, callbackData,
                    hooks, unknownCalls, forwarded, signature>>

(***************************************************************************)
(* routes/webhook.js: POST /callback and processPaymentNotification        *)
(***************************************************************************)
MaxLookups == 3

NotificationStatuses ==
  {Absent, "waiting", "confirming", "confirmed", "sending", "partially_paid",
   "finished", "completed", "complete", "failed", "refunded", "expired",
   "FINISHED", "processing"}

\* a body whose identifying keys come in the order order_id, invoice_id, id
MkNotification(o, i, id, st, price, amount, cur) ==
  LET InBody(k) == CASE k = "order_id" -> o # Absent
                     [] k = "invoice_id" -> i # Absent
                     [] OTHER -> id # Absent
  IN  [NoRequest EXCEPT !.order_id = o, !.invoice_id = i, !.id = id,
                        !.status = st, !.price_amount = price,
                        !.amount = amount, !.amount_currency = cur,
                        !.key_order =
                           SelectSeq(<<"order_id", "invoice_id", "id">>, InBody)]

\* the same body with its identifying keys in sorted order
SortKeys(body) ==
  LET InBody(k) == \E j \in 1..Len(body.key_order) : body.key_order[j] = k
  IN  [body EXCEPT !.key_order =
                      SelectSeq(<<"id", "invoice_id", "order_id">>, InBody)]

\* the notifications: every status with every amount for the payload that
\* carries order_id and id, and every combination of the identifying fields
\* for two of them
Notifications ==
  {MkNotification("o1", Absent, "42", st, 100, amount, "USDT") :
      st \in NotificationStatuses, amount \in {NoAmount, 50, 96}}
  \cup {MkNotification("o1", Absent, "42", Absent, price, amount, cur) :
      price \in {NoAmount, 100}, amount \in {NoAmount, 0, 96},
      cur \in {Absent, "USDT"}}
  \cup {MkNotification(o, i, id, st, 100, 96, "USDT") :
      o \in {Absent, "o1"}, i \in {Absent, "i1"}, id \in {Absent, "42"},
      st \in {Absent, "finished"}}
  \cup {SortKeys(MkNotification("o1", i, "42", "finished", 100, 96, "USDT")) :
      i \in {Absent, "i1"}}
  \cup {MkNotification("o1", Absent, "42", Absent, 100, amount, "USDT") :
      amount \in {94, 95, Unparsable}}
  \cup {MkNotification("o1", Absent, "42", Absent, 20, amount, "USDT") :
      amount \in {18, 19}}
  \cup {[MkNotification("o1", Absent, "42", Absent, 100, NoAmount, "USDT")
           EXCEPT !.pay_amount = 96],
        [MkNotification("o1", Absent, "42", Absent, 100, NoAmount, "USDT")
           EXCEPT !.actually_paid = 96]}

\* "Validate required fields"
CallbackValidateOrderOnly(body) ==
  IF ~TruthyText(body.order_id) THEN "Missing required field: order_id"
  ELSE "ok"
CallbackValidate(body) ==
  IF ~TruthyText(body.order_id) THEN "Missing required field: order_id"
  ELSE IF ~TruthyText(body.invoice_id) /\ ~TruthyText(body.id)
       THEN "Missing required field: invoice_id or id"
       ELSE "ok"

\* callbackData.invoice_id = callbackData.invoice_id || callbackData.id
\* (an assignment to a key the object lacks adds the key after the others)
NormalizeInvoiceId(body) ==
  [body EXCEPT !.invoice_id =
                  IF TruthyText(body.invoice_id) THEN body.invoice_id ELSE body.id,
               !.key_order =
                  IF body.invoice_id # Absent THEN body.key_order
                  ELSE Append(body.key_order, "invoice_id")]

\* PayID19Service.verifyCallback: the signature is compared with the HMAC of
\* JSON.stringify(callbackData) under the private key
verifyCallbackAcceptAll(data, sig) == TRUE
verifyCallback(data, sig) == sig = Hmac(PrivateKey, JSONstringify(data))

\* the signature headers a request may carry
Signatures(body) ==
  {NoSignature,
   Hmac(PrivateKey, JSONstringify(body)),
   Hmac(PrivateKey, JSONstringify(NormalizeInvoiceId(body))),
   Hmac(PrivateKey, JSONstringify(SortKeys(NormalizeInvoiceId(body)))),
   Hmac("another-key", JSONstringify(NormalizeInvoiceId(body)))}

\* handleConfirmingPayment: the handlers that run
handleConfirmingPaymentNoEscalation(data) == <<"handleConfirmingPayment">>
handleConfirmingPayment(data) ==
  LET expectedAmount == parseFloat(data.price_amount)
      receivedAmount == parseFloat(IF TruthyAmount(data.pay_amount)
                                   THEN data.pay_amount
                                   ELSE IF TruthyAmount(data.amount)
                                        THEN data.amount ELSE 0)
  IN  IF Positive(receivedAmount) /\ AmountSufficient(receivedAmount, expectedAmount)
      THEN <<"handleConfirmingPayment", "handleFinishedPayment">>
      ELSE <<"handleConfirmingPayment">>

\* the switch of processPaymentNotification: the handlers that run for a
\* status that has a case
SwitchLabels ==
  {"waiting", "confirming", "confirmed", "sending", "partially_paid", "finished",
   "completed", "complete", "failed", "refunded", "expired"}
SwitchHandlersFallThrough(data, paymentStatus) ==
  CASE paymentStatus = "waiting" -> <<"handleWaitingPayment">>
    [] paymentStatus = "confirming" -> handleConfirmingPayment(data)
    [] paymentStatus = "confirmed" -> <<"handleConfirmedPayment">>
    [] paymentStatus = "sending" -> <<"handleSendingPayment">>
    [] paymentStatus = "partially_paid" -> <<"handlePartiallyPaidPayment">>
    [] paymentStatus \in {"finished", "completed", "complete"} ->
         <<"handleFinishedPayment">>
    [] paymentStatus = "failed" ->
         <<"handleFailedPayment", "handleRefundedPayment">>
    [] paymentStatus = "refunded" -> <<"handleRefundedPayment">>
    [] paymentStatus = "expired" -> <<"handleExpiredPayment">>
SwitchHandlers(data, paymentStatus) ==
  CASE paymentStatus = "waiting" -> <<"handleWaitingPayment">>
    [] paymentStatus = "confirming" -> handleConfirmingPayment(data)
    [] paymentStatus = "confirmed" -> <<"handleConfirmedPayment">>
    [] paymentStatus = "sending" -> <<"handleSendingPayment">>
    [] paymentStatus = "partially_paid" -> <<"handlePartiallyPaidPayment">>
    [] paymentStatus \in {"finished", "completed", "complete"} ->
         <<"handleFinishedPayment">>
    [] paymentStatus = "failed" -> <<"handleFailedPayment">>
    [] paymentStatus = "refunded" -> <<"handleRefundedPayment">>
    [] paymentStatus = "expired" -> <<"handleExpiredPayment">>

\* "try to infer from webhook data": the status inferred from the amounts that
\* processPaymentNotification destructured at its entry
InferStatusNoPartial(amount, amount_currency, price_amount) ==
  IF TruthyAmount(amount) /\ TruthyText(amount_currency)
  THEN IF AmountSufficient(parseFloat(amount), parseFloat(price_amount))
       THEN "finished" ELSE "waiting"
  ELSE "waiting"
InferStatusNoSufficiency(amount, amount_currency, price_amount) ==
  IF TruthyAmount(amount) /\ TruthyText(amount_currency)
  THEN IF Positive(parseFloat(amount)) THEN "confirming" ELSE "waiting"
  ELSE "waiting"
InferStatus(amount, amount_currency, price_amount) ==
  IF TruthyAmount(amount) /\ TruthyText(amount_currency)
  THEN LET expectedAmount == parseFloat(price_amount)
           receivedAmount == parseFloat(amount)
       IN  IF AmountSufficient(receivedAmount, expectedAmount) THEN "finished"
           ELSE IF Positive(receivedAmount) THEN "confirming"
           ELSE "waiting"
  ELSE "waiting"

\* Array.isArray(data) ? data[0] : data, and the test invoiceData &&
\* invoiceData.status, for a result with success && data
HasStatus(r) ==
  /\ SuccessWithData(r)
  /\ Len(AsArray(r)) > 0
  /\ TruthyText(AsArray(r)[1].status)

\* callbackData after the status lookup of processPaymentNotification
AfterStatusLookup(data, r) ==
  IF HasStatus(r)
  THEN LET invoiceData == AsArray(r)[1]
       IN  [data EXCEPT !.status = invoiceData.status,
                        !.pay_amount = IF TruthyAmount(invoiceData.pay_amount)
                                       THEN invoiceData.pay_amount
                                       ELSE data.amount,
                        !.actually_paid = invoiceData.actually_paid]
  ELSE [data EXCEPT !.status = InferStatus(data.amount, data.amount_currency,
                                           data.price_amount),
                    !.pay_amount = data.amount]

\* { ...data, ...invoiceData }: the keys the invoice has replace those of data
MergeInvoice(data, invoiceData) ==
  [data EXCEPT
     !.status = invoiceData.status,
     !.invoice_id = IF TruthyText(invoiceData.invoice_id)
                    THEN invoiceData.invoice_id ELSE data.invoice_id,
     !.price_amount = IF TruthyAmount(invoiceData.price_amount)
                      THEN invoiceData.price_amount ELSE data.price_amount,
     !.actually_paid = IF TruthyAmount(invoiceData.actually_paid)
                       THEN invoiceData.actually_paid ELSE data.actually_paid,
     !.pay_amount = IF TruthyAmount(invoiceData.pay_amount)
                    THEN invoiceData.pay_amount ELSE data.pay_amount]

Ok200 == [NoRes EXCEPT !.code = 200, !.success = TRUE,
                       !.message = "Webhook processed successfully"]

\* the switch statement on paymentStatus, for the notification data: a status
\* with a case runs its handler, after which the route answers 200; any other
\* status calls handleUnknownStatus, which issues its lookup
Switch(data, paymentStatus) ==
  /\ callbackData' = data
  /\ IF paymentStatus \in SwitchLabels
     THEN /\ hooks' = hooks \o SwitchHandlers(data, paymentStatus)
          /\ pc' = "done"
          /\ res' = Ok200
          /\ UNCHANGED <<requests, unknownCalls>>
     ELSE /\ Len(requests) < MaxLookups
          /\ unknownCalls' = unknownCalls + 1
          /\ Send(GetInvoicesRequest(data.order_id, data.invoice_id, NoProbe))
          /\ pc' = "unknown_lookup"
          /\ UNCHANGED <<hooks, res>>

\* processPaymentNotification(data) up to its first await or its return
processPaymentNotification(data) ==
  IF TruthyText(data.status)
  THEN Switch(data, data.status)
  ELSE /\ callbackData' = data
       /\ Send(GetInvoicesRequest(data.order_id, data.invoice_id, NoProbe))
       /\ pc' = "ppn_lookup"
       /\ UNCHANGED <<hooks, unknownCalls, res>>

\* POST /callback of routes/webhook.js, up to its first await or its response
Callback ==
  /\ pc = "idle"
  /\ UNCHANGED taskVars
  /\ \E body \in Notifications :
     \E sig \in Signatures(body) :
        /\ op' = "callback"
        /\ req' = body
        /\ signature' = sig
        /\ IF CallbackValidate(body) # "ok"
           THEN /\ res' = HttpError(400, CallbackValidate(body),
                                    "Invalid webhook data")
                /\ pc' = "done"
                /\ UNCHANGED <<requests, callbackData, hooks, unknownCalls>>
           ELSE IF sig # NoSignature /\ ~verifyCallback(NormalizeInvoiceId(body), sig)
           THEN /\ res' = HttpError(401, "Webhook signature verification failed",
                                    "Invalid signature")
                /\ pc' = "done"
                /\ UNCHANGED <<requests, callbackData, hooks, unknownCalls>>
           ELSE processPaymentNotification(NormalizeInvoiceId(body))
        /\ UNCHANGED <<replies, status0Result, status1Result, fallbackResult,
                       forwarded>>

\* the status lookup of processPaymentNotification completes (an exception of
\* the lookup is caught and the status is inferred)
StatusLookupReply ==
  /\ pc = "ppn_lookup"
  /\ UNCHANGED taskVars
  /\ \E reply \in Replies :
     /\ Receive(reply)
     /\ LET data == AfterStatusLookup(callbackData, getInvoices(reply))
        IN  Switch(data, data.status)
     /\ UNCHANGED <<op, req, status0Result, status1Result, fallbackResult,
                    forwarded, signature>>

\* the lookup of handleUnknownStatus completes: with a status from the
\* processor the merged notification is processed again, otherwise (also on
\* an exception) handleWaitingPayment runs
UnknownStatusReply ==
  /\ pc = "unknown_lookup"
  /\ UNCHANGED taskVars
  /\ \E reply \in Replies :
     /\ Receive(reply)
     /\ LET r == getInvoices(reply)
        IN  IF HasStatus(r)
            THEN LET updatedData == MergeInvoice(callbackData, AsArray(r)[1])
                 IN  Switch(updatedData, updatedData.status)
            ELSE /\ hooks' = Append(hooks, "handleWaitingPayment")
                 /\ pc' = "done"
                 /\ res' = Ok200
                 /\ UNCHANGED <<requests, callbackData, unknownCalls>>
     /\ UNCHANGED <<op, req, status0Result, status1Result, fallbackResult,
                    forwarded, signature>>

(***************************************************************************)
(* POST /callback, shared-secret variant: the private key travels in the   *)
(* privatekey field and an accepted notification is posted downstream      *)
(***************************************************************************)
SecretNotifications ==
  {[n EXCEPT !.privatekey = k] :
     n \in {MkNotification(o, i, id, "finished", 100, 96, "USDT") :
              o \in {Absent, "o1"}, i \in {Absent, "i1"}, id \in {Absent, "42"}},
     k \in {Absent, PrivateKey, "another-key"}}

\* PayID19Service.verifyPrivateKey: equality with the configured private key
verifyPrivateKey(privatekey) == privatekey = PrivateKey

CallbackForward ==
  /\ pc = "idle"
  /\ UNCHANGED taskVars
  /\ \E body \in SecretNotifications, downstream \in {"ok", "fails"} :
        /\ op' = "callback-privatekey"
        /\ req' = body
        /\ pc' = "done"
        /\ IF CallbackValidate(body) # "ok"
           THEN /\ res' = HttpError(400, CallbackValidate(body),
                                    "Invalid webhook data")
                /\ UNCHANGED <<callbackData, forwarded>>
           ELSE IF ~TruthyText(body.privatekey)
           THEN /\ res' = HttpError(401,
                            "Private key is required in webhook data",
                            "Missing private key")
                /\ UNCHANGED <<callbackData, forwarded>>
           ELSE IF ~verifyPrivateKey(body.privatekey)
           THEN /\ res' = HttpError(401, "Private key verification failed",
                                    "Invalid private key")
                /\ UNCHANGED <<callbackData, forwarded>>
           ELSE /\ callbackData' = NormalizeInvoiceId(body)
                /\ forwarded' = Append(forwarded, NormalizeInvoiceId(body))
                /\ res' = IF downstream = "ok" THEN Ok200
                          ELSE HttpError(500, "Failed to process webhook",
                                         "Internal server error")
  /\ UNCHANGED <<requests, replies, status0Result, status1Result,
                 fallbackResult, hooks, unknownCalls, signature>>

(***************************************************************************)
(* PayID19Service.getInvoices called on its own                            *)
(***************************************************************************)
GetInvoicesCall ==
  /\ pc = "idle"
  /\ UNCHANGED taskVars
  /\ \E orderId \in {Absent, "o1"}, invoiceId \in {Absent, "i1"},
        status \in {0, 1, NoProbe}, reply \in Replies :
        /\ op' = "getInvoices"
        /\ req' = [NoRequest EXCEPT !.order_id = orderId,
                                    !.invoice_id = invoiceId]
        /\ Send(GetInvoicesRequest(orderId, invoiceId, status))
        /\ Receive(reply)
        /\ LET r == getInvoices(reply)
           IN  res' = [NoRes EXCEPT !.threw = (r.tag = "throw"),
                                    !.success = r.success,
                                    !.error = r.error,
                                    !.original_status =
                                       IF Len(r.items) > 0 THEN r.items[1].status
                                       ELSE Absent]
  /\ pc' = "done"
  /\ UNCHANGED <<status0Result, status1Result, fallbackResult, callbackData,
                 hooks, unknownCalls, forwarded, signature>>

(***************************************************************************)
(* PayID19Service.createInvoice                                            *)
(***************************************************************************)
PaymentUrl == "https://payid19.com/invoice/abc123"
BareUrl == "https://payid19.com/invoice/"
GoodUrl == "https://shop.example/return"

\* invoiceUrl.split('/').pop()
LastSegment(url) ==
  CASE url = PaymentUrl -> "abc123"
    [] url = BareUrl -> ""
    [] OTHER -> url

\* replies of the processor to create_invoice; message is the message field
\* of an envelope, the other fields are those of a result object
MkCreateReply(k, id, url, st, msg) ==
  [kind |-> k, invoice_id |-> id, invoice_url |-> url, status |-> st,
   message |-> msg]
CreateReplies ==
  {MkCreateReply("result", "inv9", PaymentUrl, "waiting", Absent),
   MkCreateReply("result", Absent, Absent, Absent, Absent)}
  \cup {MkCreateReply("success_envelope", Absent, Absent, Absent, m) :
          m \in {PaymentUrl, BareUrl, "", NonText}}
  \cup {MkCreateReply(k, Absent, Absent, Absent, Absent) : k \in FailureKinds}

CreateInputs ==
  [priceAmount : {50}, orderId : {Absent, "o1"},
   successUrl : {Absent, GoodUrl, NonText}, cancelUrl : {Absent, GoodUrl}]

NoCreated ==
  [tag |-> "none", success |-> FALSE, error |-> "", invoice_id |-> Absent,
   invoice_url |-> Absent, status |-> Absent, order_id |-> Absent]
Created(id, url, st, orderId) ==
  [NoCreated EXCEPT !.tag = "return", !.success = TRUE, !.invoice_id = id,
                    !.invoice_url = url, !.status = st, !.order_id = orderId]
CreateThrow(err) == [NoCreated EXCEPT !.tag = "throw", !.error = err]

\* orderId = uuidv4() when the caller gave none
OrderIdOrUuid(invoiceData) ==
  IF invoiceData.orderId = Absent THEN "uuid-v4" ELSE invoiceData.orderId

\* building the request throws when a URL is not a string (successUrl.includes)
CreateRequestThrows(invoiceData) ==
  invoiceData.successUrl = NonText \/ invoiceData.cancelUrl = NonText

\* config.callbacks.callback with no CALLBACK_URL in the environment
CallbackPath == "/api/payment/callback"
\* callback_url: `${this.domainUrl}${config.callbacks.callback}`
CallbackUrl == service.domainUrl \o CallbackPath

\* the requests one call sends: none when building the request throws, else
\* the one axios.post of create_invoice, whatever its outcome
CreateInvoiceRequestsRetry(invoiceData, reply) ==
  LET request == [endpoint |-> "create_invoice",
                  order_id |-> OrderIdOrUuid(invoiceData),
                  invoice_id |-> Absent, status |-> NoProbe,
                  callback_url |-> CallbackUrl]
  IN  IF CreateRequestThrows(invoiceData) THEN <<>>
      ELSE IF reply.kind \in {"transport", "http_error"}
           THEN <<request, request>>
           ELSE <<request>>
CreateInvoiceRequests(invoiceData, reply) ==
  IF CreateRequestThrows(invoiceData) THEN <<>>
  ELSE <<[endpoint |-> "create_invoice",
          order_id |-> OrderIdOrUuid(invoiceData),
          invoice_id |-> Absent, status |-> NoProbe,
          callback_url |-> CallbackUrl]>>

(***************************************************************************)
(* server.js: the routers mounted under /api/payment and /api/webhook, the *)
(* health check, and the 404 handler for every other request               *)
(***************************************************************************)
PaymentRoutes ==
  {<<"POST", "/create-invoice">>, <<"GET", "/invoices">>, <<"GET", "/health">>,
   <<"POST", "/debug-invoice">>, <<"GET", "/status">>, <<"POST", "/check-status">>,
   <<"POST", "/check-status-both">>, <<"POST", "/refresh-status">>}
WebhookRoutes == {<<"POST", "/callback">>, <<"POST", "/test">>}
MountedRoutes ==
  {<<r[1], "/api/payment" \o r[2]>> : r \in PaymentRoutes}
  \cup {<<r[1], "/api/webhook" \o r[2]>> : r \in WebhookRoutes}
  \cup {<<"GET", "/health">>}

\* the route that answers a request to a URL of this server, or "404"
Dispatch(method, url) ==
  IF \E r \in MountedRoutes : r[1] = method /\ url = DomainUrl \o r[2]
  THEN CHOOSE r \in MountedRoutes : r[1] = method /\ url = DomainUrl \o r[2]
  ELSE <<method, "404">>

\* the try block from the response on
createInvoiceTry(invoiceData, reply) ==
  CASE reply.kind = "transport" -> CreateThrow("network error")
    [] reply.kind = "http_error" -> CreateThrow("request failed with status code")
    [] reply.kind = "empty" -> CreateThrow("No response data received from API")
    [] reply.kind = "result" ->
         Created(reply.invoice_id, reply.invoice_url, reply.status, Absent)
    [] reply.kind = "success_envelope" /\ reply.message = NonText ->
         CreateThrow("invoiceUrl.split is not a function")
    [] reply.kind = "success_envelope" /\ reply.message # "" ->
         Created(LastSegment(reply.message), reply.message, "waiting",
                 OrderIdOrUuid(invoiceData))
    [] reply.kind = "error_envelope" -> CreateThrow("API returned error status")
    [] OTHER -> CreateThrow("Unknown API response format")

\* the catch block of createInvoice
createInvoiceCatch(r) ==
  IF r.tag = "throw"
  THEN [NoCreated EXCEPT !.tag = "return", !.error = r.error]
  ELSE r

CreateInvoice ==
  /\ pc = "idle"
  /\ UNCHANGED taskVars
  /\ \E invoiceData \in CreateInputs, reply \in CreateReplies :
        /\ op' = "createInvoice"
        /\ req' = [NoRequest EXCEPT !.order_id = invoiceData.orderId,
                                    !.price_amount = invoiceData.priceAmount]
        /\ requests' = requests \o CreateInvoiceRequests(invoiceData, reply)
        /\ IF CreateRequestThrows(invoiceData)
           THEN /\ res' =
                     LET r == createInvoiceCatch(
                                CreateThrow("successUrl.includes is not a function"))
                     IN  [NoRes EXCEPT !.threw = (r.tag = "throw"),
                                       !.success = r.success, !.error = r.error]
                /\ UNCHANGED replies
           ELSE /\ Receive(reply)
                /\ res' =
                     LET r == createInvoiceCatch(
                                createInvoiceTry(invoiceData, reply))
                     IN  [NoRes EXCEPT !.threw = (r.tag = "throw"),
                                       !.success = r.success, !.error = r.error,
                                       !.original_status = r.status,
                                       !.invoice_id = r.invoice_id,
                                       !.invoice_url = r.invoice_url,
                                       !.order_id = r.order_id]
  /\ pc' = "done"
  /\ UNCHANGED <<status0Result, status1Result, fallbackResult, callbackData,
                 hooks, unknownCalls, forwarded, signature>>

\* the whole function, given the reply to its request (if it sends one)
createInvoice(invoiceData, reply) ==
  IF CreateRequestThrows(invoiceData)
  THEN createInvoiceCatch(CreateThrow("successUrl.includes is not a function"))
  ELSE createInvoiceCatch(createInvoiceTry(invoiceData, reply))

(***************************************************************************)
(* POST /create-invoice                                                    *)
(***************************************************************************)
PriceInputs ==
  {PriceUndefined,
   MkPrice("number", FALSE, FALSE, 0),
   MkPrice("number", FALSE, FALSE, 0 - 5),
   MkPrice("number", FALSE, FALSE, 50),
   MkPrice("number", FALSE, TRUE, 1),
   MkPrice("string", FALSE, FALSE, 50),
   MkPrice("string", TRUE, FALSE, 0)}

RelativeUrl == "/thanks"
BadUrl == "not a url"
UrlInputs == {Absent, GoodUrl, RelativeUrl, BadUrl}

\* !priceAmount: undefined, the number 0 and NaN are falsy, every string of
\* the model is non-empty
FalsyPrice(priceAmount) ==
  \/ priceAmount.type = "undefined"
  \/ /\ priceAmount.type = "number"
     /\ (priceAmount.nan \/ (~priceAmount.inf /\ priceAmount.val = 0))
\* priceAmount <= 0: the comparison is on the numeric value and is false for NaN
PriceNotPositive(priceAmount) ==
  /\ ~priceAmount.nan
  /\ ~priceAmount.inf
  /\ priceAmount.val <= 0

\* new URL(url) succeeds: url is an absolute URL
NewUrlSucceeds(url) == url \in {GoodUrl, PaymentUrl, BareUrl}
urlValidation(url, fieldName) ==
  IF TruthyText(url) /\ ~NewUrlSucceeds(url)
  THEN fieldName \o " must be a valid URL"
  ELSE ""

\* "Validate required fields" and "Validate URL formats if provided": the
\* message of the 400 response, or "" when the body passes
CreateInvoiceValidate(body) ==
  IF FalsyPrice(body.priceAmount) THEN "priceAmount is required"
  ELSE IF PriceNotPositive(body.priceAmount)
  THEN "priceAmount must be greater than 0"
  ELSE IF urlValidation(body.successUrl, "successUrl") # ""
  THEN urlValidation(body.successUrl, "successUrl")
  ELSE IF urlValidation(body.failureUrl, "failureUrl") # ""
  THEN urlValidation(body.failureUrl, "failureUrl")
  ELSE urlValidation(body.cancelUrl, "cancelUrl")

\* orderId || `order_${uuidv4()}`
FinalOrderId(orderId) == IF TruthyText(orderId) THEN orderId ELSE "order_uuid-v4"

CreateInvoiceRoute ==
  /\ pc = "idle"
  /\ UNCHANGED taskVars
  /\ \E priceAmount \in PriceInputs, orderId \in {Absent, "o1"},
        successUrl \in UrlInputs, failureUrl \in {Absent, BadUrl},
        cancelUrl \in {Absent, GoodUrl, RelativeUrl}, reply \in CreateReplies :
        LET body == [NoRequest EXCEPT !.order_id = orderId,
                                      !.priceAmount = priceAmount,
                                      !.successUrl = successUrl,
                                      !.failureUrl = failureUrl,
                                      !.cancelUrl = cancelUrl]
            invoiceData == [priceAmount |-> priceAmount,
                            orderId |-> FinalOrderId(orderId),
                            successUrl |-> successUrl, cancelUrl |-> cancelUrl]
            result == createInvoice(invoiceData, reply)
        IN  /\ op' = "create-invoice"
            /\ req' = body
            /\ IF CreateInvoiceValidate(body) # ""
               THEN /\ res' = HttpError(400, CreateInvoiceValidate(body),
                                        "Validation Error")
                    /\ UNCHANGED <<requests, replies>>
               ELSE /\ requests' =
                         requests \o CreateInvoiceRequests(invoiceData, reply)
                    /\ Receive(reply)
                    /\ res' =
                         IF result.success
                         THEN [NoRes EXCEPT !.code = 200, !.success = TRUE,
                                 !.message = "Invoice created successfully",
                                 !.order_id = FinalOrderId(orderId),
                                 !.original_status = result.status,
                                 !.invoice_id = result.invoice_id,
                                 !.invoice_url = result.invoice_url]
                         ELSE HttpError(400, result.error,
                                        "Invoice Creation Failed")
  /\ pc' = "done"
  /\ UNCHANGED <<status0Result, status1Result, fallbackResult, callbackData,
                 hooks, unknownCalls, forwarded, signature>>

Next ==
  \/ StartCheckPaymentStatus
  \/ CpsStatus0
  \/ CpsStatus1
  \/ CpsFallbackReply
  \/ CheckStatusBoth
  \/ StatusRoute
  \/ Callback
  \/ StatusLookupReply
  \/ UnknownStatusReply
  \/ CallbackForward
  \/ GetInvoicesCall
  \/ CreateInvoice
  \/ CreateInvoiceRoute

Spec == Init /\ [][Next]_vars

(***************************************************************************)
(* Concurrent tasks.  Every router module holds one PayID19Service         *)
(* instance, which all the requests it serves use; a task is suspended at  *)
(* each await, where the steps of other tasks interleave with its own.     *)
(***************************************************************************)
MaxTaskLookups == 2

requestVars == <<pc, op, req, requests, replies, status0Result, status1Result,
                 fallbackResult, callbackData, hooks, unknownCalls, forwarded,
                 signature, res>>

\* parameters and const/let locals belong to the invocation that declares them
FrameShared(t) == 1
Frame(t) == t

TaskReplies ==
  {MkReply("result", FALSE, <<MkInvoice("finished", 100, 95, NoAmount)>>),
   MkReply("result", FALSE, <<MkInvoice("processing", 100, 95, NoAmount)>>),
   MkReply("transport", FALSE, <<>>)}
TaskCreateReplies ==
  {MkCreateReply("result", "inv9", PaymentUrl, "waiting", Absent),
   MkCreateReply("success_envelope", Absent, Absent, Absent, PaymentUrl),
   MkCreateReply("transport", Absent, Absent, Absent, Absent)}

TaskCalls ==
  {[op |-> "checkPaymentStatus", input |-> [NoRequest EXCEPT !.order_id = o]] :
      o \in OrderIds}
  \cup {[op |-> "getInvoices", input |-> [NoRequest EXCEPT !.order_id = "o1"]]}
  \cup {[op |-> "createInvoice",
         input |-> [NoRequest EXCEPT !.order_id = "o1", !.price_amount = 50,
                                     !.successUrl = u]] : u \in {GoodUrl, NonText}}
  \cup {[op |-> "notification",
         input |-> MkNotification("o1", Absent, "42", st, 100, 96, "USDT")] :
      st \in {Absent, "confirming", "processing"}}
  \cup {[op |-> "notification",
         input |-> MkNotification(Absent, Absent, "42", "finished", 100, 96, "USDT")]}

\* the invoiceData object of a createInvoice call
InvoiceDataOf(input) ==
  [priceAmount |-> input.price_amount, orderId |-> input.order_id,
   successUrl |-> input.successUrl, cancelUrl |-> input.cancelUrl]

\* what the notification route answers with, and the handlers that ran
NotificationResult(c, hs) == [NoRes EXCEPT !.code = c, !.is_complete = hs]

\* the return value of checkPaymentStatus carries this.privateKey
WithServiceKey(result) == [result EXCEPT !.private_key = service.privateKey]

\* the frame after the switch of processPaymentNotification
TaskSwitch(f, data) ==
  IF data.status \in SwitchLabels
  THEN [f EXCEPT !.data = data, !.pc = "done",
                 !.result = NotificationResult(200, SwitchHandlers(data, data.status))]
  ELSE [f EXCEPT !.data = data, !.pc = "unknown_lookup", !.lookups = @ + 1]
TaskSwitchAllowed(f, data) ==
  data.status \in SwitchLabels \/ f.lookups < MaxTaskLookups

\* a request arrives and runs up to its first await or its end
TaskStart ==
  \E t \in Tasks :
    /\ calls[t] = NoCall
    /\ \E call \in TaskCalls :
       LET f == [NoFrame EXCEPT !.data = call.input]
           data == NormalizeInvoiceId(call.input)
       IN  /\ calls' = [calls EXCEPT ![t] = call]
           /\ call.op = "notification" /\ CallbackValidate(call.input) = "ok"
                 /\ TruthyText(data.status)
              => TaskSwitchAllowed(f, data)
           /\ frames' = [frames EXCEPT ![Frame(t)] =
                CASE call.op = "checkPaymentStatus" -> [f EXCEPT !.pc = "cps_status0"]
                  [] call.op = "getInvoices" -> [f EXCEPT !.pc = "gi_await"]
                  [] call.op = "createInvoice" ->
                       IF CreateRequestThrows(InvoiceDataOf(call.input))
                       THEN [f EXCEPT !.pc = "done",
                               !.result = createInvoiceCatch(CreateThrow(
                                  "successUrl.includes is not a function"))]
                       ELSE [f EXCEPT !.pc = "ci_await"]
                  [] OTHER ->
                       IF CallbackValidate(call.input) # "ok"
                       THEN [f EXCEPT !.pc = "done",
                                      !.result = NotificationResult(400, <<>>)]
                       ELSE IF TruthyText(data.status)
                       THEN TaskSwitch(f, data)
                       ELSE [f EXCEPT !.data = data, !.pc = "ppn_lookup"]]
    /\ UNCHANGED <<service, responses>>
    /\ UNCHANGED requestVars

\* the reply to the lookup a task awaits is delivered to it
Deliver(t, reply) == responses' = [responses EXCEPT ![t] = Append(@, reply)]
Awaits(t, o, at) == calls[t].op = o /\ frames[Frame(t)].pc = at

TaskCpsStatus0 ==
  \E t \in Tasks :
    /\ Awaits(t, "checkPaymentStatus", "cps_status0")
    /\ \E reply \in TaskReplies :
       LET f == frames[Frame(t)]
           r == getInvoices(reply)
       IN  /\ Deliver(t, reply)
           /\ frames' = [frames EXCEPT ![Frame(t)] =
                IF r.tag = "throw"
                THEN [f EXCEPT !.pc = "done",
                        !.result = WithServiceKey(CpsCatch(f.data.order_id))]
                ELSE [f EXCEPT !.pc = "cps_status1", !.status0Result = r]]
    /\ UNCHANGED <<service, calls>>
    /\ UNCHANGED requestVars

TaskCpsStatus1 ==
  \E t \in Tasks :
    /\ Awaits(t, "checkPaymentStatus", "cps_status1")
    /\ \E reply \in TaskReplies :
       LET f == frames[Frame(t)]
           r == getInvoices(reply)
           orderId == f.data.order_id
       IN  /\ Deliver(t, reply)
           /\ frames' = [frames EXCEPT ![Frame(t)] =
                IF r.tag = "throw"
                THEN [f EXCEPT !.pc = "done",
                               !.result = WithServiceKey(CpsCatch(orderId))]
                ELSE IF SuccessWithData(r)
                THEN [f EXCEPT !.pc = "done", !.status1Result = r,
                        !.result = WithServiceKey(
                           CpsTail(orderId, 1, "Payment successful", TRUE, r))]
                ELSE IF SuccessWithData(f.status0Result)
                THEN [f EXCEPT !.pc = "done", !.status1Result = r,
                        !.result = WithServiceKey(
                           CpsTail(orderId, 0, "Payment waiting", TRUE,
                                   f.status0Result))]
                ELSE [f EXCEPT !.pc = "cps_fallback", !.status1Result = r]]
    /\ UNCHANGED <<service, calls>>
    /\ UNCHANGED requestVars

TaskCpsFallback ==
  \E t \in Tasks :
    /\ Awaits(t, "checkPaymentStatus", "cps_fallback")
    /\ \E reply \in TaskReplies :
       LET f == frames[Frame(t)]
       IN  /\ Deliver(t, reply)
           /\ frames' = [frames EXCEPT ![Frame(t)] =
                [f EXCEPT !.pc = "done",
                   !.result = WithServiceKey(
                      CpsFallback(f.data.order_id, getInvoices(reply)))]]
    /\ UNCHANGED <<service, calls>>
    /\ UNCHANGED requestVars

TaskGetInvoices ==
  \E t \in Tasks :
    /\ Awaits(t, "getInvoices", "gi_await")
    /\ \E reply \in TaskReplies :
       LET f == frames[Frame(t)]
       IN  /\ Deliver(t, reply)
           /\ frames' = [frames EXCEPT ![Frame(t)] =
                [f EXCEPT !.pc = "done", !.result = getInvoices(reply)]]
    /\ UNCHANGED <<service, calls>>
    /\ UNCHANGED requestVars

TaskCreateInvoice ==
  \E t \in Tasks :
    /\ Awaits(t, "createInvoice", "ci_await")
    /\ \E reply \in TaskCreateReplies :
       LET f == frames[Frame(t)]
       IN  /\ Deliver(t, reply)
           /\ frames' = [frames EXCEPT ![Frame(t)] =
                [f EXCEPT !.pc = "done",
                   !.result = createInvoiceCatch(
                      createInvoiceTry(InvoiceDataOf(f.data), reply))]]
    /\ UNCHANGED <<service, calls>>
    /\ UNCHANGED requestVars

TaskStatusLookup ==
  \E t \in Tasks :
    /\ Awaits(t, "notification", "ppn_lookup")
    /\ \E reply \in TaskReplies :
       LET f == frames[Frame(t)]
           data == AfterStatusLookup(f.data, getInvoices(reply))
       IN  /\ TaskSwitchAllowed(f, data)
           /\ Deliver(t, reply)
           /\ frames' = [frames EXCEPT ![Frame(t)] = TaskSwitch(f, data)]
    /\ UNCHANGED <<service, calls>>
    /\ UNCHANGED requestVars

TaskUnknownStatus ==
  \E t \in Tasks :
    /\ Awaits(t, "notification", "unknown_lookup")
    /\ \E reply \in TaskReplies :
       LET f == frames[Frame(t)]
           r == getInvoices(reply)
           updatedData == MergeInvoice(f.data, AsArray(r)[1])
       IN  /\ HasStatus(r) => TaskSwitchAllowed(f, updatedData)
           /\ Deliver(t, reply)
           /\ frames' = [frames EXCEPT ![Frame(t)] =
                IF HasStatus(r)
                THEN TaskSwitch(f, updatedData)
                ELSE [f EXCEPT !.pc = "done",
                        !.result = NotificationResult(200,
                                      <<"handleWaitingPayment">>)]]
    /\ UNCHANGED <<service, calls>>
    /\ UNCHANGED requestVars

TasksNext ==
  \/ TaskStart
  \/ TaskCpsStatus0
  \/ TaskCpsStatus1
  \/ TaskCpsFallback
  \/ TaskGetInvoices
  \/ TaskCreateInvoice
  \/ TaskStatusLookup
  \/ TaskUnknownStatus

SpecTasks == Init /\ [][TasksNext]_vars

\* checkPaymentStatus(orderId) as one function of the replies to its lookups
checkPaymentStatus(orderId, lookups) ==
  LET first == getInvoices(lookups[1])
      second == getInvoices(lookups[2])
  IN  IF first.tag = "throw" THEN CpsCatch(orderId)
      ELSE IF second.tag = "throw" THEN CpsCatch(orderId)
      ELSE IF SuccessWithData(second)
      THEN CpsTail(orderId, 1, "Payment successful", TRUE, second)
      ELSE IF SuccessWithData(first)
      THEN CpsTail(orderId, 0, "Payment waiting", TRUE, first)
      ELSE CpsFallback(orderId, getInvoices(lookups[3]))

\* the switch of processPaymentNotification with handleUnknownStatus, as one
\* function of the replies to the lookups that follow: the handlers that run
RECURSIVE SwitchAll(_, _)
SwitchAll(data, lookups) ==
  IF data.status \in SwitchLabels THEN SwitchHandlers(data, data.status)
  ELSE LET r == getInvoices(lookups[1])
       IN  IF HasStatus(r)
           THEN SwitchAll(MergeInvoice(data, AsArray(r)[1]), Tail(lookups))
           ELSE <<"handleWaitingPayment">>

\* POST /callback for a notification without signature header, as one
\* function of the replies to its lookups
callback(body, lookups) ==
  IF CallbackValidate(body) # "ok" THEN NotificationResult(400, <<>>)
  ELSE LET data == NormalizeInvoiceId(body)
       IN  NotificationResult(200,
             IF TruthyText(data.status) THEN SwitchAll(data, lookups)
             ELSE SwitchAll(AfterStatusLookup(data, getInvoices(lookups[1])),
                            Tail(lookups)))


(***************************************************************************)
(* Properties of the reconciliation                                        *)
(***************************************************************************)
CpsDone == op = "checkPaymentStatus" /\ pc = "done"

\* the k-th lookup of the request was the status=1 probe / the status=0 probe
IsProbe(k, p) == k \in 1..Len(replies) /\ requests[k].status = p

\* an invoice that is positive evidence of payment
CompletedStatus(invoice) ==
  /\ TruthyText(invoice.status)
  /\ invoice.status # NonText
  /\ toLowerCase(invoice.status) \in CompletedLabels
PaidEnough(invoice) ==
  /\ invoice.actually_paid >= 0
  /\ invoice.price_amount >= 0
  /\ invoice.actually_paid * 100 >= invoice.price_amount * 95
RecordEvidence(reply) ==
  /\ reply.kind \in {"result", "success_envelope"}
  /\ \E k \in 1..Len(reply.items) :
        CompletedStatus(reply.items[k]) \/ PaidEnough(reply.items[k])
PositiveEvidence ==
  \/ \E k \in 1..Len(replies) : IsProbe(k, 1) /\ EmptyMarker(replies[k])
  \/ \E k \in 1..Len(replies) : RecordEvidence(replies[k])

\* C1: checkPaymentStatus returns status 1 only when some lookup gave positive
\* evidence of payment (the empty-array marker under the status=1 probe, a
\* record with a completed status, or a record paid to at least 95%); in every
\* other case it returns status 0.
C1_PaidOnlyOnPositiveEvidence ==
  CpsDone => /\ res.status \in {0, 1}
             /\ (res.status = 1 => PositiveEvidence)

\* C2 as claimed: when both probes fail, checkPaymentStatus returns status 0
\* and does not throw, whatever any further lookup gives.
BothProbesFailed ==
  /\ Len(replies) >= 2
  /\ replies[1].kind \in FailureKinds
  /\ replies[2].kind \in FailureKinds
C2_BothProbesFailGivesWaiting ==
  (CpsDone /\ BothProbesFailed) => (~res.threw /\ res.status = 0)

\* C2 as amended: when both probes fail, checkPaymentStatus does not throw and
\* returns status 1 only when the unprobed fallback lookup succeeds and its
\* first record has a completed status or, having no status, is paid to at
\* least 95% of its price; otherwise, and always when the fallback lookup
\* fails too, it returns status 0.
FallbackEvidence ==
  /\ Len(replies) = 3
  /\ replies[3].kind \in {"result"}
  /\ Len(replies[3].items) > 0
  /\ LET invoice == replies[3].items[1]
     IN  \/ CompletedStatus(invoice)
         \/ ~TruthyText(invoice.status) /\ PaidEnough(invoice)
C2_BothProbesFailFallbackDecides ==
  (CpsDone /\ BothProbesFailed) =>
     /\ ~res.threw
     /\ res.status = (IF FallbackEvidence THEN 1 ELSE 0)
C2_Witness ==
  /\ CpsDone
  /\ BothProbesFailed
  /\ Len(replies) = 3
  /\ replies[3].kind = "result"
  /\ Len(replies[3].items) > 0
  /\ replies[3].items[1].status = "waiting"
  /\ res.status = 0

\* C3: a status=1 probe whose normalized payload is the empty-array marker is
\* reported by getInvoices as a success and makes checkPaymentStatus return
\* status 1, never a 'no invoices found' / status 0 result.
C3_EmptyMarkerMeansFinished ==
  (CpsDone /\ IsProbe(2, 1) /\ EmptyMarker(replies[2])) =>
     /\ status1Result.success
     /\ res.status = 1

\* C4: a record whose status normalizes to failed, refunded or expired is
\* never reported as paid by check-status-both, status or checkPaymentStatus,
\* whatever its paid amount.
ReconciliationDone ==
  /\ pc = "done"
  /\ op \in {"checkPaymentStatus", "check-status-both", "status"}
C4_ExplicitFailureNeverPaid ==
  (/\ ReconciliationDone
   /\ TruthyText(res.original_status)
   /\ res.original_status # NonText
   /\ toLowerCase(res.original_status) \in {"failed", "refunded", "expired"})
  => /\ res.status # 1
     /\ \A k \in 1..Len(res.is_complete) : ~res.is_complete[k]


(***************************************************************************)
(* Properties of the notification handler and of the gateway               *)
(***************************************************************************)
CallbackOp == op = "callback"
CallbackDone == CallbackOp /\ pc = "done"

\* C5: handling a notification with an unrecognised status makes at most one
\* retry lookup and re-enters processPaymentNotification at most once, so at
\* most two lookups are made for one notification and handleUnknownStatus runs
\* at most once.
C5_AtMostOneRetry ==
  CallbackOp => (unknownCalls <= 1 /\ Len(requests) <= 2)

\* C6: getInvoices and createInvoice never throw; for every transport failure
\* and every body that is an error envelope, of unknown shape or empty they
\* return a result with success = false and an error description.
GatewayDone == pc = "done" /\ op \in {"getInvoices", "createInvoice"}
C6_GatewayNeverThrows ==
  GatewayDone =>
    /\ ~res.threw
    /\ (replies = <<>> \/ replies[1].kind \in FailureKinds) =>
          (~res.success /\ res.error # "")
C6_Witness ==
  /\ GatewayDone
  /\ op = "getInvoices"
  /\ replies[1].kind = "error_envelope"
  /\ ~res.success

\* C7: a notification that passed the field validation and carries a signature
\* header, or a privatekey field, that does not match the configured private
\* key is answered 401 and nothing else happens for it: no lookup, no payment
\* handler, nothing posted downstream.
SignatureMismatch ==
  /\ CallbackOp
  /\ CallbackValidate(req) = "ok"
  /\ signature # NoSignature
  /\ signature # Hmac(PrivateKey, JSONstringify(NormalizeInvoiceId(req)))
SecretMismatch ==
  /\ op = "callback-privatekey"
  /\ CallbackValidate(req) = "ok"
  /\ req.privatekey # Absent
  /\ req.privatekey # PrivateKey
HasRequiredFields(body) ==
  /\ body.order_id # Absent
  /\ (body.invoice_id # Absent \/ body.id # Absent)
Untouched == requests = <<>> /\ hooks = <<>> /\ forwarded = <<>>
C8_RequiredFields ==
  (op \in {"callback", "callback-privatekey"}) =>
    /\ ~HasRequiredFields(req) => (pc = "done" /\ res.code = 400 /\ Untouched)
    /\ (HasRequiredFields(req) /\ res.code # 401 /\ unknownCalls = 0) =>
          callbackData.invoice_id =
            (IF req.invoice_id # Absent THEN req.invoice_id ELSE req.id)
C8_Witness ==
  /\ CallbackDone
  /\ req.invoice_id = Absent
  /\ req.id = "42"
  /\ res.code = 200
  /\ callbackData.invoice_id = "42"
  /\ hooks # <<>>

\* C9 as claimed: a notification without status that carries amount_currency
\* and an amount of at least 95% of its price_amount makes
\* handleFinishedPayment run exactly once and no other handler.
NoStatusSufficient ==
  /\ CallbackDone
  /\ res.code = 200
  /\ req.status = Absent
  /\ req.amount >= 0
  /\ req.price_amount >= 0
  /\ req.amount * 100 >= req.price_amount * 95
  /\ req.amount_currency # Absent
C9_SufficientAmountFinishes ==
  NoStatusSufficient => hooks = <<"handleFinishedPayment">>

\* C9 as amended: a notification without status that carries amount_currency
\* and an amount of at least 95% of its price_amount makes
\* handleFinishedPayment run exactly once and no other handler, provided the
\* status lookup that processPaymentNotification makes first gives no status
\* label (it fails, or its first record has no status).
LookupGaveNoStatus ==
  /\ Len(replies) = 1
  /\ \/ replies[1].kind \in FailureKinds
     \/ /\ replies[1].kind = "result"
        /\ (Len(replies[1].items) = 0 \/ replies[1].items[1].status = Absent)
C9_SufficientAmountFinishesWithoutApiStatus ==
  (NoStatusSufficient /\ LookupGaveNoStatus)
    => hooks = <<"handleFinishedPayment">>
C9_Witness ==
  /\ NoStatusSufficient
  /\ req.order_id = "o1"
  /\ req.id = "42"
  /\ req.price_amount = 100
  /\ req.amount = 96
  /\ req.amount_currency = "USDT"
  /\ LookupGaveNoStatus
  /\ hooks = <<"handleFinishedPayment">>

\* C10 as claimed: the handler that runs is the one of the canonical outcome:
\* waiting -> onWaiting, confirming -> onConfirming (escalated in-line to
\* onFinished), finished / completed / complete / confirmed -> onFinished,
\* failed -> onFailed, refunded -> onRefunded, expired -> onExpired.
ClaimedHook(label) ==
  CASE label = "waiting" -> "handleWaitingPayment"
    [] label = "confirming" -> "handleConfirmingPayment"
    [] label \in CompletedLabels -> "handleFinishedPayment"
    [] label = "failed" -> "handleFailedPayment"
    [] label = "refunded" -> "handleRefundedPayment"
    [] label = "expired" -> "handleExpiredPayment"
ClaimedLabels ==
  {"waiting", "confirming", "failed", "refunded", "expired"} \cup CompletedLabels
\* the handlers ran are the hook h, or h = onConfirming escalated to onFinished
RanOnly(h) ==
  \/ hooks = <<h>>
  \/ h = "handleConfirmingPayment"
     /\ hooks = <<"handleConfirmingPayment", "handleFinishedPayment">>
\* the notification was processed to the end and the switch ran on its status
ProcessedWithLabel ==
  /\ CallbackDone
  /\ res.code = 200
  /\ callbackData.status \in ClaimedLabels
C10_OneHookPerOutcome ==
  ProcessedWithLabel => RanOnly(ClaimedHook(callbackData.status))

\* C10 as amended: as claimed for waiting, confirming, finished, completed,
\* complete, failed, refunded and expired; status confirmed runs its own
\* handler handleConfirmedPayment, not handleFinishedPayment.
ActualHook(label) ==
  IF label = "confirmed" THEN "handleConfirmedPayment" ELSE ClaimedHook(label)
C10_OneHookPerOutcomeConfirmedApart ==
  ProcessedWithLabel => RanOnly(ActualHook(callbackData.status))
C10_Witness ==
  /\ ProcessedWithLabel
  /\ req.status = "confirmed"
  /\ hooks = <<"handleConfirmedPayment">>


(***************************************************************************)
(* Properties of the status classification                                 *)
(***************************************************************************)
\* a status that is text and normalizes to one of the labels
NormalizesTo(status, labels) ==
  /\ status # Absent
  /\ status # NonText
  /\ toLowerCase(status) \in labels

\* the reconciliation answered with a verdict on a record of the processor
ReconciledRecord ==
  /\ pc = "done"
  /\ \/ op = "check-status-both" /\ res.code = 200
     \/ op = "status" /\ res.code = 200
     \/ op = "checkPaymentStatus" /\ Len(replies) = 3 /\ res.error = ""

\* C11: a status in any letter case is treated as its lower-case label: in
\* check-status-both, status and the fallback of checkPaymentStatus a record
\* whose status normalizes to a completed label is paid and one that
\* normalizes to a waiting label is not; in processPaymentNotification a
\* notification whose status normalizes to a label of the switch runs the
\* handlers of that label, without any lookup.
C11_CaseInsensitive ==
  /\ (ReconciledRecord /\ NormalizesTo(res.original_status, CompletedLabels)) =>
        (IF op = "status" THEN res.is_complete[1] ELSE res.status = 1)
  /\ (ReconciledRecord /\ NormalizesTo(res.original_status, WaitingLabels)) =>
        (IF op = "status" THEN ~res.is_complete[1] ELSE res.status = 0)
  /\ (CallbackDone /\ res.code = 200 /\ NormalizesTo(req.status, SwitchLabels)) =>
        /\ requests = <<>>
        /\ hooks = SwitchHandlers(NormalizeInvoiceId(req), toLowerCase(req.status))

\* the record the verdict of check-status-both, or of the fallback of
\* checkPaymentStatus, was made on: the first record of the last reply
VerdictOnRecord ==
  /\ pc = "done"
  /\ \/ op = "check-status-both" /\ res.code = 200
     \/ op = "checkPaymentStatus" /\ Len(replies) = 3 /\ res.error = ""
  /\ replies[Len(replies)].kind = "result"
  /\ Len(replies[Len(replies)].items) > 0
LastRecord == replies[Len(replies)].items[1]

\* C12: for a record whose status normalizes to confirming or partially_paid,
\* check-status-both and the fallback classification of checkPaymentStatus
\* answer status 1 exactly when the record has a paid amount of at least 95%
\* of its price, and status 0 otherwise.
C12_ConfirmingDecidedByAmount ==
  (VerdictOnRecord /\ NormalizesTo(LastRecord.status, ConfirmingLabels)) =>
     res.status = (IF PaidEnough(LastRecord) THEN 1 ELSE 0)

\* a notification without status was processed to the end, and the lookup that
\* processPaymentNotification made for its status gave none
NoLabelAvailable ==
  /\ CallbackDone
  /\ res.code = 200
  /\ req.status = Absent
  /\ LookupGaveNoStatus
\* the outcome the amounts give: paid is the paid amount, price the expected one
SufficientAmounts(paid, price) ==
  paid >= 0 /\ price >= 0 /\ paid * 100 >= price * 95
PartialAmounts(paid, price) ==
  paid > 0 /\ price >= 0 /\ paid * 100 < price * 95
\* the verdict of a reconciliation on a record without status
NoLabelRecord ==
  /\ VerdictOnRecord
  /\ LastRecord.status = Absent
NoLabelVerdict ==
  NoLabelRecord =>
     res.status = (IF SufficientAmounts(LastRecord.actually_paid,
                                        LastRecord.price_amount)
                   THEN 1 ELSE 0)

\* C13 as claimed: with no status label, a notification whose amount is at
\* least 95% of its price_amount runs handleFinishedPayment, one whose amount
\* is positive but below 95% runs handleConfirmingPayment, one without amount
\* runs handleWaitingPayment, and no other handler runs; a reconciliation on a
\* record without status answers status 1 exactly when its paid amount is at
\* least 95% of its price.
C13_AmountsDecideWithoutLabel ==
  /\ (NoLabelAvailable /\ SufficientAmounts(req.amount, req.price_amount)) =>
        hooks = <<"handleFinishedPayment">>
  /\ (NoLabelAvailable /\ PartialAmounts(req.amount, req.price_amount)) =>
        hooks = <<"handleConfirmingPayment">>
  /\ (NoLabelAvailable /\ req.amount = NoAmount) =>
        hooks = <<"handleWaitingPayment">>
  /\ NoLabelVerdict

\* C13 as amended: as claimed when the notification carries amount_currency
\* along with its amount; a notification without amount or without
\* amount_currency runs handleWaitingPayment, whatever its amount.
C13_AmountsWithCurrencyDecideWithoutLabel ==
  /\ (/\ NoLabelAvailable
      /\ req.amount_currency # Absent
      /\ SufficientAmounts(req.amount, req.price_amount)) =>
        hooks = <<"handleFinishedPayment">>
  /\ (/\ NoLabelAvailable
      /\ req.amount_currency # Absent
      /\ PartialAmounts(req.amount, req.price_amount)) =>
        hooks = <<"handleConfirmingPayment">>
  /\ (NoLabelAvailable /\ (req.amount = NoAmount \/ req.amount_currency = Absent)) =>
        hooks = <<"handleWaitingPayment">>
  /\ NoLabelVerdict
C13_Witness ==
  /\ NoLabelAvailable
  /\ req.price_amount = 100
  /\ req.amount = 50
  /\ req.amount_currency = "USDT"
  /\ hooks = <<"handleConfirmingPayment">>

\* a reconciliation answered on a record whose verdict is the amount test
\* alone: a record without status
AmountTestRecord ==
  /\ pc = "done"
  /\ op \in {"check-status-both", "status", "checkPaymentStatus"}
  /\ IF op = "checkPaymentStatus" THEN Len(replies) = 3 /\ res.error = ""
     ELSE res.code = 200
  /\ replies[Len(replies)].kind = "result"
  /\ Len(replies[Len(replies)].items) > 0
  /\ LastRecord.status = Absent
  /\ LastRecord.price_amount > 0
ReportedPaid == IF op = "status" THEN res.is_complete[1] ELSE res.status = 1

CreateRouteDone == pc = "done" /\ op = "create-invoice"
\* a positive, finite number (also when it arrives as a numeric string)
PositiveFinite(priceAmount) ==
  /\ priceAmount.type # "undefined"
  /\ ~priceAmount.nan
  /\ ~priceAmount.inf
  /\ priceAmount.val > 0
\* absent, or a well-formed absolute URL
AbsentOrAbsolute(url) == url = Absent \/ url \in {GoodUrl, PaymentUrl, BareUrl}
ValidCreateBody(body) ==
  /\ PositiveFinite(body.priceAmount)
  /\ AbsentOrAbsolute(body.successUrl)
  /\ AbsentOrAbsolute(body.failureUrl)
  /\ AbsentOrAbsolute(body.cancelUrl)

\* C15: POST /create-invoice sends a create_invoice request only when the
\* amount is a positive, finite number and every supplied redirect URL is a
\* well-formed absolute URL; every other body is answered with a validation
\* error (400) and no request is sent.
C15_ValidatedBeforeRequest ==
  CreateRouteDone =>
     IF ValidCreateBody(req)
     THEN res.error # "Validation Error"
     ELSE requests = <<>> /\ res.code = 400 /\ res.error = "Validation Error"

\* a call of createInvoice, directly or through POST /create-invoice, is over
CreateDone == pc = "done" /\ op \in {"createInvoice", "create-invoice"}
CreateRequestsSent ==
  Cardinality({k \in 1..Len(requests) : requests[k].endpoint = "create_invoice"})

\* C16: one call of createInvoice sends at most one create_invoice request,
\* whatever the reply to it (either success shape, error envelope, unknown
\* shape, empty body, transport failure), and no other request.
C16_AtMostOneCreateRequest ==
  CreateDone => (CreateRequestsSent <= 1 /\ Len(requests) <= 1)
C16_Witness ==
  /\ CreateDone
  /\ op = "createInvoice"
  /\ Len(replies) = 1
  /\ replies[1].kind = "transport"
  /\ CreateRequestsSent = 1
  /\ ~res.success

\* C17: when createInvoice reports success, under either tolerated shape of
\* the reply, the invoice it returns has status waiting, a non-empty invoice
\* id and a non-empty payment URL.
C17_SuccessHasUsableInvoice ==
  (CreateDone /\ res.success) =>
     /\ res.original_status = "waiting"
     /\ res.invoice_id \notin {Absent, ""}
     /\ res.invoice_url \notin {Absent, ""}

\* C18: a lookup with neither an order id nor an invoice id sends no
\* get_invoices request and is reported as an error, by getInvoices itself
\* and by the status route.
C18_LookupNeedsAnId ==
  (/\ pc = "done"
   /\ op \in {"getInvoices", "status"}
   /\ req.order_id = Absent
   /\ req.invoice_id = Absent)
  => /\ requests = <<>>
     /\ ~res.success
     /\ res.error # ""

\* the lookups of one checkPaymentStatus call
CpsOp == op = "checkPaymentStatus"
ProbeIssued(p) == \E k \in 1..Len(requests) : requests[k].status = p
\* the status=1 probe was answered with the empty-array marker
ProbeOneGaveMarker ==
  \E k \in 1..Len(replies) : IsProbe(k, 1) /\ EmptyMarker(replies[k])

\* C19: checkPaymentStatus issues the status=1 probe first; when that probe is
\* answered with the empty-array marker the call ends at once with status 1
\* and no status=0 probe is issued; the status=0 probe is issued only after a
\* status=1 probe that was answered without the marker.
C19_ProbeOneFirstShortCircuit ==
  CpsOp =>
    /\ requests[1].status = 1
    /\ ProbeOneGaveMarker =>
         (pc = "done" /\ res.status = 1 /\ ~ProbeIssued(0))
    /\ \A j \in 1..Len(requests) :
         requests[j].status = 0 =>
           \E k \in 1..Len(replies) :
              k < j /\ IsProbe(k, 1) /\ ~EmptyMarker(replies[k])

\* a reply in which a probe returned success with data
ReplyWithData(reply) == reply.kind \in {"result", "success_envelope"}

\* C20: the lookups of one checkPaymentStatus call are sequential: at most one
\* is unanswered at any time and all are answered when the call is over; the
\* unprobed lookup is the third and last one, and it is issued only after both
\* probes were answered and neither returned success with data.
C20_LookupsSequential ==
  CpsOp =>
    /\ Len(requests) - Len(replies) \in {0, 1}
    /\ pc = "done" => Len(requests) = Len(replies)
    /\ \A k \in 1..Len(requests) :
         requests[k].status = NoProbe =>
           /\ k = 3
           /\ Len(requests) = 3
           /\ requests[1].status = 0 /\ requests[2].status = 1
           /\ ~ReplyWithData(replies[1])
           /\ ~ReplyWithData(replies[2])
C20_Witness ==
  /\ CpsDone
  /\ Len(requests) = 3
  /\ Len(replies) = 3
  /\ requests[3].status = NoProbe


(***************************************************************************)
(* Properties relating the notification path and the reconciliation paths  *)
(***************************************************************************)
\* the notification that carries the data of an invoice record: its status,
\* its expected price and its paid amount
AsNotification(invoice) ==
  MkNotification("o1", "i1", Absent, invoice.status, invoice.price_amount,
                 invoice.actually_paid, "USDT")
\* the notification path decides paid: handleFinishedPayment runs for it
NotificationPaid(data) ==
  LET st == IF TruthyText(data.status) THEN data.status
            ELSE InferStatus(data.amount, data.amount_currency, data.price_amount)
      hs == SwitchHandlers([data EXCEPT !.pay_amount = data.amount], st)
  IN  "handleFinishedPayment" \in {hs[k] : k \in 1..Len(hs)}

\* C21: for the same invoice data (status label, expected price, paid amount)
\* the reconciliation (check-status-both, the fallback of checkPaymentStatus)
\* answers paid exactly when the notification path runs handleFinishedPayment
\* for a notification with that data.
C21_PathsAgree ==
  (/\ VerdictOnRecord
   /\ LastRecord.status = Absent \/ LastRecord.status \in SwitchLabels)
  => ((res.status = 1) <=> NotificationPaid(AsNotification(LastRecord)))

\* a reconciliation is over whose last lookup returned at least one record
ClassifiedRecord ==
  /\ ReconciliationDone
  /\ Len(replies) >= 1
  /\ replies[Len(replies)].kind = "result"
  /\ Len(replies[Len(replies)].items) > 0

\* C22: the classification is total: whatever the status of the record (a
\* label, absent, or a value that is not text) and whatever its amounts
\* (present, absent, unparsable), the reconciliation answers with a verdict
\* (status 0 or 1, or a complete flag per record) and not with an error.
C22_ClassificationTotal ==
  ClassifiedRecord =>
     /\ res.code # 500
     /\ res.error = ""
     /\ IF op = "status"
        THEN Len(res.is_complete) = Len(replies[Len(replies)].items)
        ELSE res.status \in {0, 1}


(***************************************************************************)
(* Properties of the signature verification                                *)
(***************************************************************************)
\* a notification that passed the field validation and carries a signature
SignedNotification ==
  /\ CallbackOp
  /\ CallbackValidate(req) = "ok"
  /\ signature # NoSignature

\* C23: the verification does not depend on the order of the keys of the
\* payload: a signed notification is rejected (401) exactly when the payload
\* with the same keys and values in sorted key order would be rejected for the
\* same signature.
C23_KeyOrderIrrelevant ==
  SignedNotification =>
     ((res.code = 401) <=>
        ~verifyCallback(SortKeys(NormalizeInvoiceId(req)), signature))


(***************************************************************************)
(* Further properties of the notification handler                          *)
(***************************************************************************)
\* the paid amount of a notification: the first non-absent of its aliases
PaidAlias(body) ==
  IF body.amount # NoAmount THEN body.amount
  ELSE IF body.pay_amount # NoAmount THEN body.pay_amount
  ELSE body.actually_paid

\* C24: a notification without status (and with no status from the lookup)
\* gets the outcome of its paid amount whichever alias carries it: with
\* amount_currency and a paid amount of at least 95% of price_amount under
\* amount, pay_amount or actually_paid, handleFinishedPayment runs.
C24_AliasesResolved ==
  (/\ NoLabelAvailable
   /\ req.amount_currency # Absent
   /\ SufficientAmounts(PaidAlias(req), req.price_amount))
  => hooks = <<"handleFinishedPayment">>

\* the amount handleConfirmingPayment takes as received: pay_amount, else
\* amount, else nothing
Received(data) ==
  IF data.pay_amount # NoAmount THEN data.pay_amount
  ELSE IF data.amount # NoAmount THEN data.amount
  ELSE 0
\* the notification was processed to the end as confirming
ProcessedConfirming ==
  /\ CallbackDone
  /\ res.code = 200
  /\ callbackData.status = "confirming"

\* C25: for a notification classified confirming, handleFinishedPayment runs
\* after handleConfirmingPayment exactly when the received amount is greater
\* than zero and at least 95% of price_amount; otherwise only
\* handleConfirmingPayment runs.
C25_EscalationExact ==
  ProcessedConfirming =>
     hooks = (IF /\ Received(callbackData) > 0
                 /\ callbackData.price_amount >= 0
                 /\ Received(callbackData) * 100 >= callbackData.price_amount * 95
              THEN <<"handleConfirmingPayment", "handleFinishedPayment">>
              ELSE <<"handleConfirmingPayment">>)
C25_Witness ==
  /\ ProcessedConfirming
  /\ req.status = "confirming"
  /\ req.price_amount = 100
  /\ req.amount = 96
  /\ hooks = <<"handleConfirmingPayment", "handleFinishedPayment">>

\* the task has run to its end
TaskDone(t) == calls[t] # NoCall /\ frames[Frame(t)].pc = "done"
\* the replies delivered to a task, followed by "no body" for lookups that
\* were never answered
Delivered(t) ==
  responses[t] \o [k \in 1..(MaxTaskLookups + 2) |-> MkReply("empty", FALSE, <<>>)]
\* the result of the call running alone with the same replies
ResultAlone(call, lookups) ==
  CASE call.op = "checkPaymentStatus" ->
         checkPaymentStatus(call.input.order_id, lookups)
    [] call.op = "getInvoices" -> getInvoices(lookups[1])
    [] call.op = "createInvoice" ->
         createInvoice(InvoiceDataOf(call.input), lookups[1])
    [] OTHER -> callback(call.input, lookups)

\* C26: the fields of the service instance keep the values the constructor
\* gave them, and in every interleaving of concurrent tasks the result of
\* each finished task is the one its call produces alone from the same
\* processor replies.
C26_TasksIndependent ==
  /\ service = ServiceConstructed
  /\ \A t \in Tasks :
        TaskDone(t) =>
           frames[Frame(t)].result = ResultAlone(calls[t], Delivered(t))
C26_Witness ==
  /\ TaskDone(1)
  /\ TaskDone(2)
  /\ calls[1].op = "checkPaymentStatus"
  /\ calls[2] = calls[1]
  /\ Len(responses[1]) = 3
  /\ Len(responses[2]) = 2
  /\ frames[Frame(1)].result.status # frames[Frame(2)].result.status

\* the lookups of one checkPaymentStatus call, in the order the code issues them
CpsLookups(orderId) ==
  <<GetInvoicesRequest(orderId, Absent, 0),
    GetInvoicesRequest(orderId, Absent, 1),
    GetInvoicesRequest(orderId, Absent, NoProbe)>>

\* C27: whatever the processor answers, checkPaymentStatus issues at most
\* three lookups (probe 0, probe 1, then at most one unprobed), has returned
\* once the third is answered, never throws, and returns status 0 or 1 with
\* the order id it was called with.
C27_TotalAndBounded ==
  CpsOp =>
     /\ Len(requests) <= 3
     /\ requests = SubSeq(CpsLookups(req.order_id), 1, Len(requests))
     /\ Len(replies) = 3 => pc = "done"
     /\ Len(replies) = Len(requests) => pc = "done"
     /\ ~res.threw
     /\ pc = "done" =>
           /\ res.status \in {0, 1}
           /\ res.order_id = req.order_id
C27_Witness ==
  /\ CpsDone
  /\ Len(replies) = 3
  /\ replies[3].kind = "result"
  /\ Len(replies[3].items) > 0
  /\ replies[3].items[1].status = NonText
  /\ res.status = 0

\* C28: the callback_url of every create_invoice request is the URL at which
\* the notification handler (POST /api/webhook/callback) is served, so a
\* notification posted to it is not answered by the 404 handler.
C28_CallbackUrlServed ==
  \A k \in 1..Len(requests) :
     requests[k].endpoint = "create_invoice" =>
        Dispatch("POST", requests[k].callback_url) = <<"POST", "/api/webhook/callback">>

\* the signature header is the HMAC, under the private key, of the payload
\* as it was received
SignedAsReceived ==
  /\ CallbackOp
  /\ CallbackValidate(req) = "ok"
  /\ signature = Hmac(PrivateKey, JSONstringify(req))

\* C29: a notification whose signature header is the HMAC-SHA256, under the
\* private key, of the payload as received is not rejected, also when the
\* payload carries id and no invoice_id.
C29_ReceivedPayloadVerified ==
  SignedAsReceived => res.code # 401

\* a result of checkPaymentStatus, or a response of POST /check-status (which
\* sends that result) or of POST /check-status-both
ReconciliationAnswered ==
  /\ op \in {"checkPaymentStatus", "check-status-both"}
  /\ pc = "done"

\* C30: no result of checkPaymentStatus and no response of the reconciliation
\* endpoints carries the private key of the processor.
C30_PrivateKeyNotDisclosed ==
  ReconciliationAnswered => res.private_key # PrivateKey

====
